---- MODULE Spec2Model ----
(***************************************************************************)
(* TacticalCorrelator: the evidence ingestion and correlation engine of    *)
(* src/tactical_correlator/core/correlator.py, with the helpers it calls   *)
(* in utils/data_utils.py and parsers/base_parser.py.                      *)
(*                                                                         *)
(* One correlator instance is modelled.  analyze_case runs are sequential  *)
(* on it; inside a run the parse tasks of one category are asyncio tasks   *)
(* that interleave at their await points.                                  *)
(*                                                                         *)
(* Numbers: scores are exact rationals with denominator ScoreDen (the      *)
(* source uses floats n/10, n/20, n/15, n/25 and boosts of 0.3 * b); a     *)
(* threshold or an anomaly score is held in tenths.  Times are seconds.    *)
(***************************************************************************)
EXTENDS Integers, Sequences, FiniteSets, TLC

\* ------------------------------------------------------------------ bounds
MaxRuns == 2
MaxCats == 2
MaxFiles == 2
MaxFanFiles == 5

\* Program constants.
max_workers == 4
ScoreDen == 300
WindowSeconds == 300
TopN == 100

\* ------------------------------------------------------------- value model
\* A key that is not in a Python dict, and the Python value None.
Absent == "<absent>"
None == "<None>"
\* What a missing cell of a pandas DataFrame holds.
NaN == "<NaN>"
\* A normalized event has no timestamp / a DataFrame cell holds NaT.
NoTime == -1

\* Raw timestamps as an adapter delivers them: a text in one of the formats
\* normalize_timestamp knows ("iso": %Y-%m-%dT%H:%M:%S, "space":
\* %Y-%m-%d %H:%M:%S), a text it cannot parse ("bad"), the value None, or no
\* 'timestamp' key at all.  t is the instant in seconds.
RawTs(fmt, t) == [fmt |-> fmt, t |-> t]
TsAbsent == RawTs("absent", 0)
TsNone == RawTs("none", 0)

\* dict.get(key) and dict.get(key, default) on a raw field.
Get(v) == IF v = Absent THEN None ELSE v
GetDefault(v, d) == IF v = Absent THEN d ELSE v

\* normalize_timestamp: the instant of a text in a known format, else None.
normalize_timestamp(ts) ==
    IF ts.fmt \in {"iso", "space"} THEN ts.t ELSE NoTime

\* hash_event: md5 of the JSON of seven RAW fields (md5 and json.dumps are
\* injective on these values, so the tuple itself stands for the digest).
\* str() of the raw timestamp keeps its textual format; a missing key gives ''.
HashTimestamp(ts) == IF ts = TsAbsent THEN RawTs("text", 0) ELSE ts
hash_event(event) ==
    << HashTimestamp(event.timestamp),
       GetDefault(event.source, ""),
       GetDefault(event.description, ""),
       GetDefault(event.hostname, ""),
       GetDefault(event.username, ""),
       GetDefault(event.process_name, ""),
       GetDefault(event.ip_address, "") >>

\* _normalize_event: the normalized dict; a field whose value is None is
\* dropped from it (Absent).  source_type is not set here: _correlate_events
\* adds it later to the same dict.
normalize_event(event) ==
    [ timestamp    |-> normalize_timestamp(event.timestamp),
      source       |-> LET s == GetDefault(event.source, "unknown")
                       IN IF s = None THEN Absent ELSE s,
      event_id     |-> IF Get(event.event_id) = None THEN Absent ELSE event.event_id,
      description  |-> LET d == GetDefault(event.description, "")
                       IN IF d = None THEN Absent ELSE d,
      hostname     |-> IF Get(event.hostname) = None THEN Absent ELSE event.hostname,
      username     |-> IF Get(event.username) = None THEN Absent ELSE event.username,
      process_name |-> IF Get(event.process_name) = None THEN Absent ELSE event.process_name,
      ip_address   |-> IF Get(event.ip_address) = None THEN Absent ELSE event.ip_address,
      raw_data     |-> event,
      hash         |-> hash_event(event),
      source_type  |-> Absent ]

\* ------------------------------------------------------------ input universe
\* Evidence categories a caller may name: two with a registered adapter and one
\* ("mft") with none.
Categories == {"evtx", "dns", "mft"}
\* self.parsers
parsers == {"evtx", "dns", "sysmon"}
Paths == {"a.evtx", "b.evtx"}

\* BaseParser.parser_name, the 'source' create_base_event stamps on a record.
parser_name(source_type) ==
    CASE source_type = "evtx" -> "EVTXParser"
      [] source_type = "dns" -> "DNSParser"
      [] OTHER -> "SysmonParser"

\* Raw records as create_base_event builds them: every key present, None
\* where the decoder found nothing ('source' is filled in by the adapter).
recLogon ==
    [ timestamp |-> RawTs("iso", 36000), source |-> None, event_id |-> "4625",
      description |-> "Failed logon attempt", hostname |-> "ws01",
      username |-> "alice", process_name |-> "lsass.exe", ip_address |-> None ]
recBare ==
    [ timestamp |-> TsNone, source |-> None, event_id |-> None,
      description |-> "", hostname |-> None, username |-> None,
      process_name |-> None, ip_address |-> None ]
recGarbled ==
    [ timestamp |-> RawTs("bad", 0), source |-> None, event_id |-> None,
      description |-> "Logon", hostname |-> "ws01", username |-> "alice",
      process_name |-> "injector.exe", ip_address |-> None ]

\* What a file may hold.
Contents == { <<recLogon, recLogon>>, <<recBare, recGarbled>> }

\* anomaly_threshold values a caller may pass, in tenths: the default 0.7 and
\* a value outside [0,1].
Thresholds == {7, 15}
ValidThreshold(t) == 0 <= t /\ t <= 10

\* Sequences over S of length at most n.
SeqUpTo(S, n) == UNION { [1..k -> S] : k \in 0..n }

RECURSIVE FileCount(_)
FileCount(ev) == IF ev = <<>> THEN 0 ELSE Len(Head(ev).file_paths) + FileCount(Tail(ev))

\* evidence_paths: a dict, so its categories are distinct and kept in
\* insertion order; each holds a list of paths.  At most MaxCats categories
\* and MaxFiles paths in all.
EvidenceInputs ==
    { ev \in SeqUpTo([source_type : Categories, file_paths : SeqUpTo(Paths, MaxFiles)], MaxCats) :
        /\ \A i, j \in 1..Len(ev) : i # j => ev[i].source_type # ev[j].source_type
        /\ FileCount(ev) <= MaxFiles }

\* ------------------------------------------------------- pandas, as used here
\* Python's order on the texts that occur as grouping keys (groupby sorts its
\* keys): code-point order, so '' first and upper case before lower case.
StringOrder ==
    << "", "Injector.EXE", "alice", "bob", "carol", "dave", "erin", "frank",
       "inject-srv", "injector.exe", "lsass.exe",
       "ws01", "ws02", "ws03", "ws04", "ws05", "ws06", "ws07" >>
Rank(s) == CHOOSE i \in 1..Len(StringOrder) : StringOrder[i] = s

RECURSIVE SortInts(_)
SortInts(S) ==
    IF S = {} THEN <<>>
    ELSE LET m == CHOOSE x \in S : \A y \in S : x <= y
         IN <<m>> \o SortInts(S \ {m})

RECURSIVE SortStrings(_)
SortStrings(S) ==
    IF S = {} THEN <<>>
    ELSE LET m == CHOOSE x \in S : \A y \in S : Rank(x) <= Rank(y)
         IN <<m>> \o SortStrings(S \ {m})

Range(f) == { f[i] : i \in DOMAIN f }

Min(a, b) == IF a <= b THEN a ELSE b

\* A cell of pd.DataFrame(all_events): a key missing from a dict gives NaN.
Cell(v) == IF v = Absent THEN NaN ELSE v

\* dt.floor('5min'); NaT stays NaT.  (Floor5Min_PerMinute: the variant that
\* floors to the minute.)
Floor5Min_PerMinute(t) == IF t = NoTime THEN NoTime ELSE t - (t % 60)
Floor5Min(t) == IF t = NoTime THEN NoTime ELSE t - (t % WindowSeconds)

\* One row of the DataFrame after _find_temporal_correlations has added the
\* 'time_window' column (group.to_dict('records') yields such rows).
Row(e) ==
    [ timestamp    |-> e.timestamp,
      source       |-> Cell(e.source),
      event_id     |-> Cell(e.event_id),
      description  |-> Cell(e.description),
      hostname     |-> Cell(e.hostname),
      username     |-> Cell(e.username),
      process_name |-> Cell(e.process_name),
      ip_address   |-> Cell(e.ip_address),
      raw_data     |-> e.raw_data,
      hash         |-> e.hash,
      source_type  |-> Cell(e.source_type),
      time_window  |-> Floor5Min(e.timestamp) ]

DataFrame(all_events) == [ i \in 1..Len(all_events) |-> Row(all_events[i]) ]

\* df has the column: some event dict carries the key.
HasTimestamp(all_events) == \E i \in 1..Len(all_events) : all_events[i].timestamp # NoTime
HasUsername(all_events) == \E i \in 1..Len(all_events) : all_events[i].username # Absent
HasHostname(all_events) == \E i \in 1..Len(all_events) : all_events[i].hostname # Absent
HasProcessName(all_events) == \E i \in 1..Len(all_events) : all_events[i].process_name # Absent

\* ------------------------------------------------------------- correlators
\* (Correlation_Unclamped: the variant without min(1.0, ...).)
Correlation_Unclamped(type, window, entity, rows, den) ==
    [ type |-> type, window |-> window, entity |-> entity, events |-> rows,
      count |-> Len(rows), correlation_score |-> (Len(rows) * ScoreDen) \div den ]
Correlation(type, window, entity, rows, den) ==
    [ type |-> type, window |-> window, entity |-> entity, events |-> rows,
      count |-> Len(rows),
      correlation_score |-> Min(ScoreDen, (Len(rows) * ScoreDen) \div den) ]

\* One correlation per key, in the order of keys, for the keys that more than
\* one row carries in the column.
\* (EmitGroups_Singletons: the variant whose size test is len(group) > 0.)
RECURSIVE EmitGroups_Singletons(_, _, _, _, _)
EmitGroups_Singletons(keys, df, type, column, den) ==
    IF keys = <<>> THEN <<>>
    ELSE LET k == Head(keys)
             rows == SelectSeq(df, LAMBDA r : r[column] = k)
         IN << Correlation(type,
                           IF type = "temporal" THEN k ELSE NoTime,
                           IF type = "temporal" THEN Absent ELSE k,
                           rows, den) >>
            \o EmitGroups_Singletons(Tail(keys), df, type, column, den)
RECURSIVE EmitGroups(_, _, _, _, _)
EmitGroups(keys, df, type, column, den) ==
    IF keys = <<>> THEN <<>>
    ELSE LET k == Head(keys)
             rows == SelectSeq(df, LAMBDA r : r[column] = k)
             rest == EmitGroups(Tail(keys), df, type, column, den)
         IN IF Len(rows) > 1
            THEN << Correlation(type,
                                IF type = "temporal" THEN k ELSE NoTime,
                                IF type = "temporal" THEN Absent ELSE k,
                                rows, den) >> \o rest
            ELSE rest

\* groupby('time_window'): keys ascending, NaT dropped.
find_temporal_correlations(df) ==
    EmitGroups(SortInts({ r.time_window : r \in Range(df) } \ {NoTime}),
               df, "temporal", "time_window", 10)

\* groupby('username'), groupby('hostname'): keys ascending, NaN dropped; the
\* empty text is a key like any other (pd.notna('') is true).
UserGroups(df) ==
    EmitGroups(SortStrings({ r.username : r \in Range(df) } \ {NaN}),
               df, "user_activity", "username", 20)
HostGroups(df) ==
    EmitGroups(SortStrings({ r.hostname : r \in Range(df) } \ {NaN}),
               df, "host_activity", "hostname", 15)
find_entity_correlations(df) == UserGroups(df) \o HostGroups(df)

find_process_correlations(df) ==
    EmitGroups(SortStrings({ r.process_name : r \in Range(df) } \ {NaN}),
               df, "process_activity", "process_name", 25)

\* _correlate_events once all_events is known to be non-empty.  df['timestamp']
\* and df.groupby(<column>) raise KeyError when no event dict carries the key.
CorrelateFrame(all_events) ==
    IF ~HasTimestamp(all_events) \/ ~HasUsername(all_events)
       \/ ~HasHostname(all_events) \/ ~HasProcessName(all_events)
    THEN [ exc |-> "KeyError", correlations |-> <<>> ]
    ELSE LET df == DataFrame(all_events)
         IN [ exc |-> "none",
              correlations |-> find_temporal_correlations(df)
                               \o find_entity_correlations(df)
                               \o find_process_correlations(df) ]

\* Mutant: the `if not all_events: return correlations` guard left out, so an
\* empty frame reaches df['timestamp'].
correlate_events_NoGuard(all_events) ==
    IF all_events = <<>> THEN [ exc |-> "KeyError", correlations |-> <<>> ]
    ELSE CorrelateFrame(all_events)

correlate_events(all_events) ==
    IF all_events = <<>> THEN [ exc |-> "none", correlations |-> <<>> ]
    ELSE CorrelateFrame(all_events)

\* ------------------------------------------------------- scoring and ranking
\* ml_insights as MLEngine.analyze_and_score hands it back, or None.
NoInsights == [ present |-> FALSE, anomaly_scores |-> <<>>, confidence |-> 0 ]
Insights(scores, confidence) ==
    [ present |-> TRUE, anomaly_scores |-> scores, confidence |-> confidence ]

\* A key of ml_insights['anomaly_scores']: the text str(hash(str(correlation)))
\* of a group's printed form (hashing and printing are taken injective, so the
\* group itself stands for the text), or a (kind, key) pair.  The map is held
\* as its list of items.
HashId(correlation) == [ by |-> "hash(str)", of |-> correlation ]
PairId(kind, key) == [ by |-> "(kind, key)", of |-> << kind, key >> ]
SameId(a, b) ==
    /\ a.by = b.by
    /\ IF a.by = "(kind, key)" THEN a.of[1] = b.of[1] /\ a.of[2] = b.of[2]
       ELSE a.of = b.of

\* correlation.get('id', str(hash(str(correlation)))): no correlator sets an
\* 'id', so the identifier is the hash of the group's printed form.
correlation_id(correlation) == HashId(correlation)

\* anomaly_scores.get(id, 0)
ScoreOf(anomaly_scores, id) ==
    IF \E i \in 1..Len(anomaly_scores) : SameId(anomaly_scores[i].id, id)
    THEN anomaly_scores[CHOOSE i \in 1..Len(anomaly_scores) :
                            SameId(anomaly_scores[i].id, id)].score
    ELSE 0

\* final_score of one correlation; a boost b (tenths) adds 0.3 * b / 10.
FinalScore(correlation, ml_insights) ==
    LET ml_boost == IF ml_insights.present
                    THEN ScoreOf(ml_insights.anomaly_scores, correlation_id(correlation))
                    ELSE 0
    IN Min(ScoreDen, correlation.correlation_score + (ml_boost * 3 * ScoreDen) \div 100)

\* threshold (tenths) on the scale of the scores.
Scaled(threshold) == (threshold * ScoreDen) \div 10

RECURSIVE Flatten(_)
Flatten(ss) == IF ss = <<>> THEN <<>> ELSE Head(ss) \o Flatten(Tail(ss))

Reverse(s) == [ i \in 1..Len(s) |-> s[Len(s) + 1 - i] ]

\* (SortByPriority_Ascending: the variant that sorts without reverse=True.)
SortByPriority_Ascending(events) ==
    LET scores == SortInts({ e.priority_score : e \in Range(events) })
    IN Flatten([ i \in 1..Len(scores) |->
                   SelectSeq(events, LAMBDA e : e.priority_score = scores[i]) ])
\* list.sort(key=priority_score, reverse=True): stable.
SortByPriority(events) ==
    LET scores == Reverse(SortInts({ e.priority_score : e \in Range(events) }))
    IN Flatten([ i \in 1..Len(scores) |->
                   SelectSeq(events, LAMBDA e : e.priority_score = scores[i]) ])

Annotated(row, final_score, type) ==
    [ event |-> row, priority_score |-> final_score, correlation_type |-> type ]

\* (extract_high_priority_events_TruncateFirst: the variant that slices to
\* TopN before it sorts.)
extract_high_priority_events_TruncateFirst(correlations, ml_insights, threshold) ==
    LET members(c) ==
            LET final_score == FinalScore(c, ml_insights)
            IN IF final_score >= Scaled(threshold)
               THEN [ i \in 1..Len(c.events) |-> Annotated(c.events[i], final_score, c.type) ]
               ELSE <<>>
        high_priority == Flatten([ i \in 1..Len(correlations) |-> members(correlations[i]) ])
    IN SortByPriority(SubSeq(high_priority, 1, Min(TopN, Len(high_priority))))
\* (extract_high_priority_events_Strict: the variant whose test is
\* final_score > threshold.)
extract_high_priority_events_Strict(correlations, ml_insights, threshold) ==
    LET members(c) ==
            LET final_score == FinalScore(c, ml_insights)
            IN IF final_score > Scaled(threshold)
               THEN [ i \in 1..Len(c.events) |-> Annotated(c.events[i], final_score, c.type) ]
               ELSE <<>>
        high_priority == Flatten([ i \in 1..Len(correlations) |-> members(correlations[i]) ])
    IN SubSeq(SortByPriority(high_priority), 1, Min(TopN, Len(high_priority)))
extract_high_priority_events(correlations, ml_insights, threshold) ==
    LET members(c) ==
            LET final_score == FinalScore(c, ml_insights)
            IN IF final_score >= Scaled(threshold)
               THEN [ i \in 1..Len(c.events) |-> Annotated(c.events[i], final_score, c.type) ]
               ELSE <<>>
        high_priority == Flatten([ i \in 1..Len(correlations) |-> members(correlations[i]) ])
    IN SubSeq(SortByPriority(high_priority), 1, Min(TopN, Len(high_priority)))

\* str(x) without .lower().
Lower_Identity(s) == IF s = NaN THEN "nan" ELSE s
\* ----------------------------------------------------------- pattern detector
\* str(x).lower() on the texts of the model.
Lower(s) ==
    CASE s = "Failed logon attempt" -> "failed logon attempt"
      [] s = "Logon" -> "logon"
      [] s = "Injector.EXE" -> "injector.exe"
      [] s = NaN -> "nan"
      [] OTHER -> s
\* 'failed' in text / 'inject' in text, for lower-cased texts of the model.
ContainsFailed(s) == s \in {"failed logon attempt"}
ContainsInject(s) == s \in {"injector.exe", "inject-srv"}

\* The detector with the host rule firing from five groups on.
detect_attack_patterns_HostsAtLeast5(correlations) ==
    LET auth_failures ==
            SelectSeq(correlations, LAMBDA c :
                c.type = "user_activity"
                /\ \E i \in 1..Len(c.events) : ContainsFailed(Lower(c.events[i].description)))
        host_correlations == SelectSeq(correlations, LAMBDA c : c.type = "host_activity")
        process_correlations == SelectSeq(correlations, LAMBDA c : c.type = "process_activity")
    IN (IF Len(auth_failures) > 3 THEN <<"brute_force_attempt">> ELSE <<>>)
       \o (IF Len(host_correlations) >= 5 THEN <<"potential_lateral_movement">> ELSE <<>>)
       \o (IF \E i \in 1..Len(process_correlations) :
                 ContainsInject(Lower(process_correlations[i].entity))
           THEN <<"process_injection">> ELSE <<>>)
\* The detector with the injection rule reading the key of every group that
\* has one.
detect_attack_patterns_AnyKindKey(correlations) ==
    LET auth_failures ==
            SelectSeq(correlations, LAMBDA c :
                c.type = "user_activity"
                /\ \E i \in 1..Len(c.events) : ContainsFailed(Lower(c.events[i].description)))
        host_correlations == SelectSeq(correlations, LAMBDA c : c.type = "host_activity")
        keyed == SelectSeq(correlations, LAMBDA c : c.type # "temporal")
    IN (IF Len(auth_failures) > 3 THEN <<"brute_force_attempt">> ELSE <<>>)
       \o (IF Len(host_correlations) > 5 THEN <<"potential_lateral_movement">> ELSE <<>>)
       \o (IF \E i \in 1..Len(keyed) : ContainsInject(Lower(keyed[i].entity))
           THEN <<"process_injection">> ELSE <<>>)
detect_attack_patterns(correlations) ==
    LET auth_failures ==
            SelectSeq(correlations, LAMBDA c :
                c.type = "user_activity"
                /\ \E i \in 1..Len(c.events) : ContainsFailed(Lower(c.events[i].description)))
        host_correlations == SelectSeq(correlations, LAMBDA c : c.type = "host_activity")
        process_correlations == SelectSeq(correlations, LAMBDA c : c.type = "process_activity")
    IN (IF Len(auth_failures) > 3 THEN <<"brute_force_attempt">> ELSE <<>>)
       \o (IF Len(host_correlations) > 5 THEN <<"potential_lateral_movement">> ELSE <<>>)
       \o (IF \E i \in 1..Len(process_correlations) :
                 ContainsInject(Lower(process_correlations[i].entity))
           THEN <<"process_injection">> ELSE <<>>)

\* ---------------------------------------------------------- confidence score
RECURSIVE SumScores(_)
SumScores(correlations) ==
    IF correlations = <<>> THEN 0
    ELSE Head(correlations).correlation_score + SumScores(Tail(correlations))

\* The score as an exact fraction num/den, for n > 0 correlations:
\*   0.4 * min(1, n/50) + 0.4 * mean(score) + 0.2 * confidence, capped at 1.
Fraction(num, den) == [ num |-> num, den |-> den ]
\* The combined score with the engine's confidence left out.
CombinedScore_IgnoresMl(correlations, ml_insights) ==
    LET n == Len(correlations)
        den == 250 * ScoreDen * n
        num == 2 * ScoreDen * Min(n, 50) * n + 100 * SumScores(correlations)
    IN Fraction(Min(den, num), den)
CombinedScore(correlations, ml_insights) ==
    LET n == Len(correlations)
        den == 250 * ScoreDen * n
        ml_score == IF ml_insights.present THEN ml_insights.confidence ELSE 0
        num == 2 * ScoreDen * Min(n, 50) * n + 100 * SumScores(correlations)
               + 5 * ScoreDen * ml_score * n
    IN Fraction(Min(den, num), den)

calculate_confidence_score(correlations, ml_insights) ==
    IF correlations = <<>> THEN Fraction(0, 1)
    ELSE CombinedScore(correlations, ml_insights)

\* ================================================================== state
VARIABLES
    disk,               \* what each evidence file holds (fixed during a behaviour)
    parsed_cache,       \* self._parsed_cache: cache key -> list of normalized events
    runs,               \* analyze_case calls made on the instance so far
    pc,                 \* where the current analyze_case call is
    evidence_paths,     \* its evidence_paths argument
    anomaly_threshold,  \* its anomaly_threshold argument (tenths)
    source_idx,         \* position of _parse_evidence's loop over the categories
    tasks,              \* the parse tasks handed to asyncio.gather for that category
    finished,           \* the parse tasks of the categories already joined
    parsed_data,        \* _parse_evidence's dict, in insertion order
    result,             \* the CorrelationResult returned, if any
    exc,                \* the exception analyze_case raised, if any
    saved               \* result files written by _save_results so far

vars == << disk, parsed_cache, runs, pc, evidence_paths, anomaly_threshold,
           source_idx, tasks, finished, parsed_data, result, exc, saved >>

NoResult == [ returned |-> FALSE ]

\* cache_key = f"{file_path}_{hash(file_path)}": a function of the path alone;
\* the parser takes no part in it.
CacheKey(parser, file_path) == << file_path, "hash", file_path >>

\* `cache_key in self._parsed_cache`
CacheHit_Never(cache, cache_key) == FALSE
CacheHit(cache, cache_key) == cache_key \in DOMAIN cache

\* Identity of a Python list object: the list a task built in this run, or
\* the list already cached under a key when the run began.
ListOf(idx, i, file_path) == << idx, i, file_path >>
OldList(file_path) == << 0, 0, file_path >>

\* Outcomes of one adapter call.  "ok": the records of the file, stamped with
\* the adapter's name; "raise": the call raises.
Outcomes == {"ok", "raise"}
parse_async(source_type, file_path, outcome) ==
    CASE outcome = "ok" ->
           [ exc |-> "none",
             events |-> [ i \in 1..Len(disk[file_path]) |->
                            [ disk[file_path][i] EXCEPT !.source = parser_name(source_type) ] ] ]
      [] OTHER -> [ exc |-> "Exception", events |-> <<>> ]

NewTask(file_path) ==
    [ file_path |-> file_path, st |-> "pending", invoked |-> FALSE, hit |-> FALSE,
      failed |-> FALSE, id |-> OldList(file_path), events |-> <<>> ]

\* _parse_evidence from category idx on, up to its next await: categories with
\* no paths are skipped, a category with paths gets its (empty) entry, and
\* the loop stops at the first category that has tasks to gather.
RECURSIVE EnterCategories(_, _, _)
EnterCategories(ev, idx, pd) ==
    IF idx > Len(ev) THEN [ idx |-> idx, parsed_data |-> pd, tasks |-> <<>> ]
    ELSE LET c == ev[idx]
             entered == Append(pd, [ source_type |-> c.source_type, events |-> <<>> ])
         IN IF c.file_paths = <<>> THEN EnterCategories(ev, idx + 1, pd)
            ELSE IF c.source_type \in parsers
            THEN [ idx |-> idx, parsed_data |-> entered,
                   tasks |-> [ i \in 1..Len(c.file_paths) |-> NewTask(c.file_paths[i]) ] ]
            ELSE EnterCategories(ev, idx + 1, entered)

Init ==
    /\ disk \in [Paths -> Contents]
    /\ parsed_cache = <<>>
    /\ runs = 0
    /\ pc = "idle"
    /\ evidence_paths = <<>>
    /\ anomaly_threshold = 7
    /\ source_idx = 1
    /\ tasks = <<>>
    /\ finished = <<>>
    /\ parsed_data = <<>>
    /\ result = NoResult
    /\ exc = "none"
    /\ saved = 0

\* A list cached by an earlier run is, for the new run, the old list of its key.
Aged(cache) == [ k \in DOMAIN cache |-> [ cache[k] EXCEPT !.id = OldList(k[1]) ] ]

\* analyze_case is called: up to the first await of _parse_evidence.
AnalyzeCase(ev, threshold) ==
    /\ pc \in {"idle", "done", "raised"}
    /\ runs < MaxRuns
    /\ runs' = runs + 1
    /\ evidence_paths' = ev
    /\ anomaly_threshold' = threshold
    /\ parsed_cache' = Aged(parsed_cache)
    /\ LET stop == EnterCategories(ev, 1, <<>>)
       IN /\ source_idx' = stop.idx
          /\ tasks' = stop.tasks
          /\ parsed_data' = stop.parsed_data
          /\ pc' = IF stop.idx > Len(ev) THEN "correlate" ELSE "parsing"
    /\ finished' = <<>>
    /\ result' = NoResult
    /\ exc' = "none"
    /\ UNCHANGED << disk, saved >>

\* _parse_single_file up to its await: tasks start in the order gather got
\* them.  A cache hit returns the cached list; a miss calls the adapter.
TaskStart(i) ==
    /\ pc = "parsing"
    /\ i \in 1..Len(tasks)
    /\ tasks[i].st = "pending"
    /\ \A j \in 1..(i - 1) : tasks[j].st # "pending"
    /\ LET cache_key == CacheKey(evidence_paths[source_idx].source_type, tasks[i].file_path)
       IN IF CacheHit(parsed_cache, cache_key)
          THEN tasks' = [ tasks EXCEPT ![i] =
                    [ @ EXCEPT !.st = "done", !.hit = TRUE,
                               !.id = parsed_cache[cache_key].id,
                               !.events = parsed_cache[cache_key].events ] ]
          ELSE tasks' = [ tasks EXCEPT ![i] = [ @ EXCEPT !.st = "awaiting", !.invoked = TRUE ] ]
    /\ UNCHANGED << disk, parsed_cache, runs, pc, evidence_paths, anomaly_threshold,
                    source_idx, finished, parsed_data, result, exc, saved >>

\* The rest of _parse_single_file with a failed call cached as an empty list.
AdapterReturns_CachesFailure(i, outcome) ==
    /\ pc = "parsing"
    /\ i \in 1..Len(tasks)
    /\ tasks[i].st = "awaiting"
    /\ LET source_type == evidence_paths[source_idx].source_type
           file_path == tasks[i].file_path
           cache_key == CacheKey(source_type, file_path)
           got == parse_async(source_type, file_path, outcome)
           normalized_events == [ k \in 1..Len(got.events) |-> normalize_event(got.events[k]) ]
           id == ListOf(source_idx, i, file_path)
       IN /\ parsed_cache' = (cache_key :> [ id |-> id, events |-> normalized_events ])
                             @@ parsed_cache
          /\ IF got.exc = "none"
             THEN tasks' = [ tasks EXCEPT ![i] =
                    [ @ EXCEPT !.st = "done", !.id = id, !.events = normalized_events ] ]
             ELSE tasks' = [ tasks EXCEPT ![i] = [ @ EXCEPT !.st = "done", !.failed = TRUE ] ]
    /\ UNCHANGED << disk, runs, pc, evidence_paths, anomaly_threshold, source_idx,
                    finished, parsed_data, result, exc, saved >>
\* The adapter call of task i ends; the rest of _parse_single_file runs:
\* normalize and cache on success, log and return [] on an exception.
AdapterReturns(i, outcome) ==
    /\ pc = "parsing"
    /\ i \in 1..Len(tasks)
    /\ tasks[i].st = "awaiting"
    /\ LET source_type == evidence_paths[source_idx].source_type
           file_path == tasks[i].file_path
           cache_key == CacheKey(source_type, file_path)
           got == parse_async(source_type, file_path, outcome)
           normalized_events == [ k \in 1..Len(got.events) |-> normalize_event(got.events[k]) ]
           id == ListOf(source_idx, i, file_path)
       IN IF got.exc = "none"
          THEN /\ parsed_cache' = (cache_key :> [ id |-> id, events |-> normalized_events ])
                                  @@ parsed_cache
               /\ tasks' = [ tasks EXCEPT ![i] =
                    [ @ EXCEPT !.st = "done", !.id = id, !.events = normalized_events ] ]
          ELSE /\ parsed_cache' = parsed_cache
               /\ tasks' = [ tasks EXCEPT ![i] = [ @ EXCEPT !.st = "done", !.failed = TRUE ] ]
    /\ UNCHANGED << disk, runs, pc, evidence_paths, anomaly_threshold, source_idx,
                    finished, parsed_data, result, exc, saved >>

\* The event dicts of a task's result list, each with its identity (list,
\* position): the same dict may sit in the cache and in several categories.
Items(task) ==
    [ k \in 1..Len(task.events) |-> [ oid |-> << task.id, k >>, ev |-> task.events[k] ] ]

\* What the loop over gather's results extends parsed_data[source_type] with:
\* every task's list (a failed task returned []), in task order.
GatherResults_AbortOnFailure(ts) ==
    IF \E i \in 1..Len(ts) : ts[i].failed THEN <<>>
    ELSE Flatten([ i \in 1..Len(ts) |-> Items(ts[i]) ])
\* The merge taking gather's results last task first.
GatherResults_Reversed(ts) == Flatten([ i \in 1..Len(ts) |-> Items(ts[Len(ts) + 1 - i]) ])
GatherResults(ts) == Flatten([ i \in 1..Len(ts) |-> Items(ts[i]) ])

\* The per-file error list the ingestion step hands back: there is none.
\* _parse_single_file logs the exception and returns []; _parse_evidence
\* returns parsed_data alone and stats has no error field.
ReturnedErrors == <<>>

\* asyncio.gather returns once every task of the category is done; its results
\* are merged and _parse_evidence goes on to the next category with tasks.
Gather ==
    /\ pc = "parsing"
    /\ \A i \in 1..Len(tasks) : tasks[i].st = "done"
    /\ LET merged == [ parsed_data EXCEPT ![Len(parsed_data)].events = @ \o GatherResults(tasks) ]
           stop == EnterCategories(evidence_paths, source_idx + 1, merged)
       IN /\ source_idx' = stop.idx
          /\ tasks' = stop.tasks
          /\ parsed_data' = stop.parsed_data
          /\ pc' = IF stop.idx > Len(evidence_paths) THEN "correlate" ELSE "parsing"
    /\ finished' = Append(finished, [ source_type |-> evidence_paths[source_idx].source_type,
                                      tasks |-> tasks ])
    /\ UNCHANGED << disk, parsed_cache, runs, evidence_paths, anomaly_threshold,
                    result, exc, saved >>

\* The loop `event['source_type'] = source_type; all_events.append(event)` of
\* _correlate_events: it writes into the event dicts themselves, so a dict
\* listed under several categories ends with the last category's name, in
\* every place that holds it.
Tagged(pd) ==
    Flatten([ c \in 1..Len(pd) |->
                [ k \in 1..Len(pd[c].events) |->
                    [ oid |-> pd[c].events[k].oid, ev |-> pd[c].events[k].ev,
                      source_type |-> pd[c].source_type ] ] ])
LastType(tagged, oid) ==
    LET last == CHOOSE i \in 1..Len(tagged) :
                    /\ tagged[i].oid = oid
                    /\ \A j \in (i + 1)..Len(tagged) : tagged[j].oid # oid
    IN tagged[last].source_type
Touched(tagged, oid) == \E i \in 1..Len(tagged) : tagged[i].oid = oid
Retyped(tagged, oid, ev) ==
    IF Touched(tagged, oid) THEN [ ev EXCEPT !.source_type = LastType(tagged, oid) ] ELSE ev

AllEvents(pd) ==
    LET tagged == Tagged(pd)
    IN [ i \in 1..Len(tagged) |-> Retyped(tagged, tagged[i].oid, tagged[i].ev) ]

\* MLEngine.analyze_and_score's answers considered: None (also the case
\* enable_ml=False), or insights with an overall confidence and no score that
\* matches a correlation's identifier.
MLOutputs == { NoInsights, Insights(<<>>, 5) }

RECURSIVE TotalEvents(_)
TotalEvents(pd) == IF pd = <<>> THEN 0 ELSE Len(Head(pd).events) + TotalEvents(Tail(pd))

\* The CorrelationResult that steps 4 to 7 of analyze_case build from the
\* correlations and the high-priority events.
CorrelationResult(pd, correlations, high_priority_events, threshold, ev, ml_insights) ==
    [ returned |-> TRUE,
      high_priority_events |-> high_priority_events,
      correlations |-> correlations,
      ml_insights |-> ml_insights,
      stats |-> [ total_events |-> TotalEvents(pd),
                  correlations |-> Len(correlations),
                  anomalies |-> Len(SelectSeq(high_priority_events,
                      LAMBDA e : e.priority_score > Scaled(threshold))),
                  sources_processed |-> [ c \in 1..Len(ev) |-> ev[c].source_type ] ],
      attack_patterns |-> detect_attack_patterns(correlations),
      confidence_score |-> calculate_confidence_score(correlations, ml_insights) ]

\* The event dicts after _correlate_events has tagged them, where they sit in
\* parsed_data and where they sit in the cache.
RetypedData(pd) ==
    LET tagged == Tagged(pd)
    IN [ c \in 1..Len(pd) |->
           [ source_type |-> pd[c].source_type,
             events |-> [ k \in 1..Len(pd[c].events) |->
                 [ oid |-> pd[c].events[k].oid,
                   ev |-> Retyped(tagged, pd[c].events[k].oid, pd[c].events[k].ev) ] ] ] ]
RetypedCache(cache, pd) ==
    LET tagged == Tagged(pd)
    IN [ key \in DOMAIN cache |->
           [ id |-> cache[key].id,
             events |-> [ k \in 1..Len(cache[key].events) |->
                 Retyped(tagged, << cache[key].id, k >>, cache[key].events[k]) ] ] ]

\* analyze_case after _parse_evidence: none of its steps awaits anything but
\* the collaborators, so they are one step.
Analyze(ml_insights) ==
    /\ pc = "correlate"
    /\ \E correlated \in { correlate_events(AllEvents(parsed_data)) } :
          IF correlated.exc # "none"
          THEN /\ pc' = "raised"
               /\ exc' = correlated.exc
               /\ result' = NoResult
               /\ saved' = saved
          ELSE \E high_priority_events \in
                    { extract_high_priority_events(correlated.correlations, ml_insights,
                                                   anomaly_threshold) } :
                  /\ pc' = "done"
                  /\ exc' = "none"
                  /\ result' = CorrelationResult(parsed_data, correlated.correlations,
                                   high_priority_events, anomaly_threshold,
                                   evidence_paths, ml_insights)
                  /\ saved' = saved + 1
    /\ parsed_data' = RetypedData(parsed_data)
    /\ parsed_cache' = RetypedCache(parsed_cache, parsed_data)
    /\ UNCHANGED << disk, runs, evidence_paths, anomaly_threshold, source_idx, tasks,
                    finished >>

Next ==
    \/ \E ev \in EvidenceInputs, threshold \in Thresholds : AnalyzeCase(ev, threshold)
    \/ \E i \in 1..MaxFiles : TaskStart(i)
    \/ \E i \in 1..MaxFiles, outcome \in Outcomes : AdapterReturns(i, outcome)
    \/ Gather
    \/ \E ml_insights \in MLOutputs : Analyze(ml_insights)

Spec == Init /\ [][Next]_vars

\* The same program under the fairness its scheduling gives: the event loop
\* runs every ready task step and every ready continuation (task starts, the
\* join, the rest of analyze_case).  Nothing makes an adapter call return, and
\* no timer is armed around it, so AdapterReturns gets no fairness; nor does
\* the caller have to start a run.
Fairness ==
    /\ WF_vars(\E i \in 1..MaxFiles : TaskStart(i))
    /\ WF_vars(Gather)
    /\ WF_vars(\E ml_insights \in MLOutputs : Analyze(ml_insights))
FairSpec == Spec /\ Fairness

\* One category with many files: the fan-out of _parse_evidence.  Every list
\* of MaxFanFiles paths under the "evtx" category, default threshold.
FanInputs ==
    { << [ source_type |-> "evtx", file_paths |-> fp ] >> : fp \in [1..MaxFanFiles -> Paths] }
NextFan ==
    \/ \E ev \in FanInputs : AnalyzeCase(ev, 7)
    \/ \E i \in 1..MaxFanFiles : TaskStart(i)
    \/ \E i \in 1..MaxFanFiles, outcome \in Outcomes : AdapterReturns(i, outcome)
    \/ Gather
    \/ \E ml_insights \in MLOutputs : Analyze(ml_insights)
SpecFan == Init /\ [][NextFan]_vars

\* --------------------------------------------- the correlation stage at large
\* One-file runs over richer file contents: every list of at most MaxEvents
\* records drawn from Recs, a batch of SaturatingBatch logons of one user and
\* a batch of OverflowBatch logons of two users in turn (all of a batch in
\* one 5-minute window, each with its own second).
MaxEvents == 4
SaturatingBatch == 21
OverflowBatch == 26

Rec(ts, username, hostname, process_name) ==
    [ timestamp |-> ts, source |-> None, event_id |-> "4624", description |-> "Logon",
      hostname |-> hostname, username |-> username, process_name |-> process_name,
      ip_address |-> None ]
\* 10:00:00, 10:01:00 and 10:06:00 of one day; and a record without timestamp
\* whose user name is the empty text.
Recs ==
    { Rec(RawTs("iso", 36000), "alice", "ws01", "lsass.exe"),
      Rec(RawTs("iso", 36060), "alice", "ws01", "lsass.exe"),
      Rec(RawTs("iso", 36360), "bob", "ws02", "injector.exe"),
      Rec(TsNone, "", None, None) }
BatchSame(n) ==
    [ i \in 1..n |-> Rec(RawTs("iso", 36000 + i), "alice", "ws01", "lsass.exe") ]
BatchSplit(n) ==
    [ i \in 1..n |-> Rec(RawTs("iso", 36000 + i), IF i % 2 = 1 THEN "alice" ELSE "bob",
                         "ws01", "lsass.exe") ]
\* n events of one window of which only the first names a user, a host and a
\* process: the window is the only group.
HalfBatch == 5
LoneWindow(n) ==
    [ i \in 1..n |-> IF i = 1 THEN Rec(RawTs("iso", 36000 + i), "alice", "ws01", "lsass.exe")
                     ELSE Rec(RawTs("iso", 36000 + i), None, None, None) ]
\* Two failed logons for each of n users and two successful ones of one more
\* user, all on one host and by one process.
MaxFailedUsers == 4
UserNames == << "alice", "bob", "carol", "dave", "erin", "frank" >>
FailedLogons(n) ==
    [ i \in 1..(2 * n + 2) |->
        [ Rec(RawTs("iso", 36000 + i), UserNames[(i + 1) \div 2], "ws01", "Injector.EXE")
            EXCEPT !.description = IF i <= 2 * n THEN "Failed logon attempt" ELSE "Logon" ] ]
\* Two logons of one user on each of n hosts.
MaxHosts == 6
HostNames == << "inject-srv", "ws01", "ws02", "ws03", "ws04", "ws05", "ws06", "ws07" >>
HostSpread(n) ==
    [ i \in 1..(2 * n) |->
        Rec(RawTs("iso", 36000 + i), "alice", HostNames[(i + 1) \div 2], "lsass.exe") ]
\* One instant written in two of the formats normalize_timestamp accepts.
SameInstant ==
    << Rec(RawTs("iso", 36000), "alice", "ws01", "lsass.exe"),
       Rec(RawTs("space", 36000), "alice", "ws01", "lsass.exe") >>
RichContents ==
    SeqUpTo(Recs, MaxEvents)
    \cup { BatchSame(SaturatingBatch), BatchSplit(OverflowBatch), LoneWindow(HalfBatch),
           SameInstant }
    \cup { FailedLogons(n) : n \in 1..MaxFailedUsers }
    \cup { HostSpread(n) : n \in 1..MaxHosts }

OneFile == << [ source_type |-> "evtx", file_paths |-> << "a.evtx" >> ] >>
\* anomaly_threshold values, in tenths.
ThresholdsCorr == {2, 5}

\* Answers of MLEngine.analyze_and_score considered at large: None; a map
\* keyed by (kind, key) pairs that covers every group of the records of Recs; a map
\* keyed, as _extract_high_priority_events looks it up, by the hash of each
\* group of this run.
PairKeyed ==
    Insights(<< [ id |-> PairId("temporal", 36000), score |-> 10 ],
                [ id |-> PairId("temporal", 36300), score |-> 10 ],
                [ id |-> PairId("user_activity", ""), score |-> 10 ],
                [ id |-> PairId("user_activity", "alice"), score |-> 10 ],
                [ id |-> PairId("user_activity", "bob"), score |-> 10 ],
                [ id |-> PairId("host_activity", "ws01"), score |-> 10 ],
                [ id |-> PairId("host_activity", "ws02"), score |-> 10 ],
                [ id |-> PairId("process_activity", "injector.exe"), score |-> 10 ],
                [ id |-> PairId("process_activity", "lsass.exe"), score |-> 10 ] >>, 5)
HashKeyed(correlations) ==
    Insights([ i \in 1..Len(correlations) |->
                 [ id |-> HashId(correlations[i]), score |-> 5 ] ], 5)
MLFor(pd) ==
    { NoInsights, PairKeyed, HashKeyed(correlate_events(AllEvents(pd)).correlations) }

InitCorr ==
    /\ disk \in { [ p \in Paths |-> c ] : c \in RichContents }
    /\ parsed_cache = <<>>
    /\ runs = 0
    /\ pc = "idle"
    /\ evidence_paths = <<>>
    /\ anomaly_threshold = 7
    /\ source_idx = 1
    /\ tasks = <<>>
    /\ finished = <<>>
    /\ parsed_data = <<>>
    /\ result = NoResult
    /\ exc = "none"
    /\ saved = 0
NextCorr ==
    \/ \E threshold \in ThresholdsCorr : AnalyzeCase(OneFile, threshold)
    \/ TaskStart(1)
    \/ \E outcome \in Outcomes : AdapterReturns(1, outcome)
    \/ Gather
    \/ \E ml_insights \in MLFor(parsed_data) : Analyze(ml_insights)
SpecCorr == InitCorr /\ [][NextCorr]_vars

\* ================================================================== claims
\* Every parse task of the current run, with its category: the joined
\* categories first, then the category being gathered.
RunTasks ==
    Flatten([ f \in 1..Len(finished) |->
                [ i \in 1..Len(finished[f].tasks) |->
                    [ source_type |-> finished[f].source_type, task |-> finished[f].tasks[i] ] ] ])
    \o (IF pc = "parsing"
        THEN [ i \in 1..Len(tasks) |->
                 [ source_type |-> evidence_paths[source_idx].source_type, task |-> tasks[i] ] ]
        ELSE <<>>)

\* parsed_data[source_type], or [] when the category has no entry.
EventsOf(source_type) ==
    Flatten([ c \in 1..Len(parsed_data) |->
                IF parsed_data[c].source_type = source_type THEN parsed_data[c].events ELSE <<>> ])

\* An event without the tag _correlate_events adds: the fields _normalize_event set.
Normalized(ev) == [ ev EXCEPT !.source_type = Absent ]

ParseEnded == pc \in {"correlate", "done", "raised"}

C2_ErrorListExhaustive ==
    pc \in {"done", "raised"} =>
        \A n \in 1..Len(RunTasks) :
            RunTasks[n].task.failed <=>
                \E e \in 1..Len(ReturnedErrors) :
                    ReturnedErrors[e].file_path = RunTasks[n].task.file_path

\* C3 (as claimed): the event list handed to the correlators never holds two
\* events with the same hash.
C3_NoDuplicateHash ==
    ParseEnded =>
        LET all_events == AllEvents(parsed_data)
        IN \A i, j \in 1..Len(all_events) :
              i # j => all_events[i].hash # all_events[j].hash

\* C4 (as claimed): analyze_case ends with a result or a ConfigurationError;
\* no other exception reaches the caller.
C4_OnlyConfigurationError ==
    pc = "raised" => exc = "ConfigurationError"

\* Adapter calls made in the current run for a path by a category's adapter.
Invocations(source_type, file_path) ==
    Cardinality({ n \in 1..Len(RunTasks) :
                    /\ RunTasks[n].source_type = source_type
                    /\ RunTasks[n].task.file_path = file_path
                    /\ RunTasks[n].task.invoked })

\* C5 (as claimed): at most one adapter invocation per (path, adapter) pair,
\* also when several tasks for the path are in flight.
C5_AtMostOneInvocation ==
    \A source_type \in Categories, file_path \in Paths :
        Invocations(source_type, file_path) <= 1

\* C6: a cache hit skips the adapter.  (a) A task whose adapter call succeeds
\* stores its normalized events under the key of its path; (b) an entry, once
\* stored, stays and keeps the normalized fields of its events; (c) a task
\* that starts while its key is cached ends at once with the cached list and
\* without an adapter call.
C6_CacheHitSkipsAdapter ==
    [][ /\ \A i \in 1..Len(tasks) :
             ( /\ pc = "parsing" /\ pc' = "parsing" /\ Len(tasks') = Len(tasks)
               /\ tasks[i].st = "awaiting" /\ tasks'[i].st = "done" /\ ~tasks'[i].failed )
             => LET key == CacheKey(evidence_paths[source_idx].source_type, tasks[i].file_path)
                IN /\ key \in DOMAIN parsed_cache'
                   /\ parsed_cache'[key].events = tasks'[i].events
        /\ \A key \in DOMAIN parsed_cache :
             /\ key \in DOMAIN parsed_cache'
             /\ Len(parsed_cache'[key].events) = Len(parsed_cache[key].events)
             /\ \A k \in 1..Len(parsed_cache[key].events) :
                   Normalized(parsed_cache'[key].events[k]) = Normalized(parsed_cache[key].events[k])
        /\ \A i \in 1..Len(tasks) :
             LET key == CacheKey(evidence_paths[source_idx].source_type, tasks[i].file_path)
             IN ( /\ pc = "parsing" /\ pc' = "parsing" /\ Len(tasks') = Len(tasks)
                  /\ tasks[i].st = "pending" /\ tasks'[i].st # "pending"
                  /\ key \in DOMAIN parsed_cache )
                => /\ tasks'[i].st = "done"
                   /\ ~tasks'[i].invoked
                   /\ ~tasks'[i].failed
                   /\ tasks'[i].events = parsed_cache[key].events
                   /\ parsed_cache' = parsed_cache
      ]_vars

\* C6 witness: in a later run, a task ended on a cache hit, without an adapter
\* call, holding events an earlier run parsed.
C6_Witness ==
    /\ runs = 2
    /\ \E n \in 1..Len(RunTasks) :
          /\ RunTasks[n].task.hit
          /\ ~RunTasks[n].task.invoked
          /\ RunTasks[n].task.id = OldList(RunTasks[n].task.file_path)
          /\ RunTasks[n].task.events # <<>>

\* Parse tasks whose adapter call is in flight.
InFlight == Cardinality({ i \in 1..Len(tasks) : tasks[i].st = "awaiting" })

\* C7 (as claimed): at any moment at most max_workers adapter calls are in
\* flight, however many files a category lists.
C7_BoundedConcurrency == InFlight <= max_workers

\* C8 (as claimed): an adapter call that does not return is cut off by the
\* timeout, so a run that has started parsing always ends.
C8_RunCompletes == (pc = "parsing") ~> (pc \in {"done", "raised"})

\* C9 (as claimed): a run started with an anomaly threshold outside [0,1] is
\* rejected with a ConfigurationError before any processing: no adapter call,
\* no cache write, no result.
C9_InvalidThresholdRejected ==
    (runs > 0 /\ ~ValidThreshold(anomaly_threshold)) =>
        /\ pc = "raised"
        /\ exc = "ConfigurationError"
        /\ \A n \in 1..Len(RunTasks) : ~RunTasks[n].task.invoked
        /\ result = NoResult

\* C10: a run in which no event was parsed ends with a result, not an
\* exception, and the result has no correlation, no priority event, no attack
\* pattern and confidence 0.
C10_EmptyRunIsNotAnError ==
    (pc \in {"done", "raised"} /\ TotalEvents(parsed_data) = 0) =>
        /\ pc = "done"
        /\ result.returned
        /\ result.correlations = <<>>
        /\ result.high_priority_events = <<>>
        /\ result.attack_patterns = <<>>
        /\ result.confidence_score.num = 0

\* C10 witness: a finished run in which every adapter call raised, so that no
\* event was parsed, while the ML collaborator reported a confidence.
C10_Witness ==
    /\ pc = "done"
    /\ TotalEvents(parsed_data) = 0
    /\ Len(RunTasks) > 0
    /\ \A n \in 1..Len(RunTasks) : RunTasks[n].task.failed
    /\ result.ml_insights.present

\* ------------------------------------------------ claims on the correlators
\* The event list _correlate_events built in the run that has just ended, and
\* the groups of one kind in its result, in the order of the correlations list.
UnifiedEvents == AllEvents(parsed_data)
Groups(type) == SelectSeq(result.correlations, LAMBDA c : c.type = type)
\* Event e is a member (a row) of group g.
MemberOf(e, g) ==
    \E m \in 1..Len(g.events) :
        /\ g.events[m].hash = e.hash
        /\ g.events[m].timestamp = e.timestamp
SameWindow(t1, t2) == t1 \div WindowSeconds = t2 \div WindowSeconds

\* C11: temporal correlator.  In the result of a run, two events are in one
\* temporal group exactly when both have a timestamp and the timestamps fall
\* in the same 5-minute window; there is one group per window, each of at
\* least 2 events, and no member lacks a timestamp.
C11_TemporalGroups ==
    pc = "done" =>
        LET ev == UnifiedEvents
            T == Groups("temporal")
        IN /\ \A g \in 1..Len(T) :
                 /\ Len(T[g].events) >= 2
                 /\ \A m \in 1..Len(T[g].events) : T[g].events[m].timestamp # NoTime
                 /\ \A m, n \in 1..Len(T[g].events) :
                       SameWindow(T[g].events[m].timestamp, T[g].events[n].timestamp)
                 /\ \A h \in 1..Len(T) :
                       g # h => ~SameWindow(T[g].events[1].timestamp, T[h].events[1].timestamp)
           /\ \A i, j \in 1..Len(ev) :
                 i # j =>
                    ( ( /\ ev[i].timestamp # NoTime
                        /\ ev[j].timestamp # NoTime
                        /\ SameWindow(ev[i].timestamp, ev[j].timestamp) )
                      <=> \E g \in 1..Len(T) : MemberOf(ev[i], T[g]) /\ MemberOf(ev[j], T[g]) )
           /\ \A i \in 1..Len(ev) :
                 ev[i].timestamp = NoTime => \A g \in 1..Len(T) : ~MemberOf(ev[i], T[g])

\* C11 witness: events at 10:00:00, 10:01:00 and 10:06:00 gave one temporal
\* group, of the first two, with score 0.2.
C11_Witness ==
    /\ pc = "done"
    /\ [ i \in 1..Len(UnifiedEvents) |-> UnifiedEvents[i].timestamp ] = << 36000, 36060, 36360 >>
    /\ Len(Groups("temporal")) = 1
    /\ [ m \in 1..2 |-> Groups("temporal")[1].events[m].timestamp ] = << 36000, 36060 >>
    /\ Len(Groups("temporal")[1].events) = 2
    /\ Groups("temporal")[1].correlation_score * 10 = 2 * ScoreDen

\* The attribute an entity or process group is keyed by.
EntityKinds == {"user_activity", "host_activity", "process_activity"}
Attr(e, kind) ==
    CASE kind = "user_activity" -> e.username
      [] kind = "host_activity" -> e.hostname
      [] OTHER -> e.process_name
Carriers(ev, kind, value) == SelectSeq(ev, LAMBDA e : Attr(e, kind) = value)

\* C12 (as claimed): for user name, host name and process name, there is
\* exactly one group per distinct non-empty value that at least 2 events
\* carry, its members are the events carrying the value, and no group has an
\* empty or absent key.
C12_EntityGroups ==
    pc = "done" =>
        \A kind \in EntityKinds :
            LET ev == UnifiedEvents
                G == Groups(kind)
            IN /\ \A g \in 1..Len(G) :
                     /\ G[g].entity \notin {"", Absent, NaN, None}
                     /\ [ m \in 1..Len(G[g].events) |-> G[g].events[m].hash ]
                          = [ m \in 1..Len(Carriers(ev, kind, G[g].entity)) |->
                                Carriers(ev, kind, G[g].entity)[m].hash ]
                     /\ \A h \in 1..Len(G) : g # h => G[g].entity # G[h].entity
               /\ \A i \in 1..Len(ev) :
                     ( /\ Attr(ev[i], kind) \notin {"", Absent}
                       /\ Len(Carriers(ev, kind, Attr(ev[i], kind))) >= 2 )
                     => \E g \in 1..Len(G) : G[g].entity = Attr(ev[i], kind)

\* The saturation constant of a kind of group.
Saturation(type) ==
    CASE type = "temporal" -> 10
      [] type = "user_activity" -> 20
      [] type = "host_activity" -> 15
      [] OTHER -> 25

\* C13: every group of the result has score min(1, members / K), K being 10,
\* 20, 15 or 25 by kind; so the score is in [0,1].  (Scores are held as
\* multiples of 1/ScoreDen.)
C13_GroupScore ==
    pc = "done" =>
        \A c \in 1..Len(result.correlations) :
            LET g == result.correlations[c]
                n == Len(g.events)
            IN /\ g.count = n
               /\ 0 <= g.correlation_score /\ g.correlation_score <= ScoreDen
               /\ IF n >= Saturation(g.type)
                  THEN g.correlation_score = ScoreDen
                  ELSE g.correlation_score * Saturation(g.type) = n * ScoreDen

\* C13 witness: SaturatingBatch events (21, more than K = 20) sharing the
\* user name alice gave one user group, with score 1.
C13_Witness ==
    /\ pc = "done"
    /\ Len(Groups("user_activity")) = 1
    /\ Groups("user_activity")[1].entity = "alice"
    /\ Len(Groups("user_activity")[1].events) = SaturatingBatch
    /\ Groups("user_activity")[1].correlation_score = ScoreDen

\* C14: every group of the result, of every kind, has at least 2 members.
C14_AtLeastTwoMembers ==
    pc = "done" =>
        \A c \in 1..Len(result.correlations) :
            /\ Len(result.correlations[c].events) >= 2
            /\ result.correlations[c].count >= 2

\* C14 witness: a run over events of which one stands alone in its window and
\* with its user, host and process, while others form groups.
C14_Witness ==
    /\ pc = "done"
    /\ Len(result.correlations) > 0
    /\ \E i \in 1..Len(UnifiedEvents) :
          /\ UnifiedEvents[i].timestamp # NoTime
          /\ \A j \in 1..Len(UnifiedEvents) :
                i # j => /\ ~SameWindow(UnifiedEvents[i].timestamp, UnifiedEvents[j].timestamp)
                         /\ UnifiedEvents[i].username # UnifiedEvents[j].username
                         /\ UnifiedEvents[i].hostname # UnifiedEvents[j].hostname
                         /\ UnifiedEvents[i].process_name # UnifiedEvents[j].process_name

\* The key a group of each kind is made on, for an event and for a group.
KeyOf(e, type) ==
    IF type = "temporal"
    THEN (IF e.timestamp = NoTime THEN NoTime ELSE e.timestamp \div WindowSeconds)
    ELSE Attr(e, type)
GroupKey(g) ==
    IF g.type = "temporal" THEN g.events[1].timestamp \div WindowSeconds ELSE g.entity
\* Position in the event list of the first event that carries the key.
FirstCarrier(ev, type, key) ==
    CHOOSE i \in 1..Len(ev) :
        /\ KeyOf(ev[i], type) = key
        /\ \A j \in 1..(i - 1) : KeyOf(ev[j], type) # key

\* C15 (as claimed): groups of one kind come in the order in which their keys
\* are first met in the event list.
C15_FirstEncounteredOrder ==
    pc = "done" =>
        \A type \in EntityKinds \cup {"temporal"} :
            LET G == Groups(type)
            IN \A g, h \in 1..Len(G) :
                  g < h => FirstCarrier(UnifiedEvents, type, GroupKey(G[g]))
                             < FirstCarrier(UnifiedEvents, type, GroupKey(G[h]))

\* ----------------------------------------------- claims on the priority list
\* The group qualifies: its final score reaches the run's threshold.
Qualifies(c) == FinalScore(c, result.ml_insights) >= Scaled(anomaly_threshold)
\* Number of members of the qualifying groups among cs.
RECURSIVE QualifyingMembers(_)
QualifyingMembers(cs) ==
    IF cs = <<>> THEN 0
    ELSE (IF Qualifies(Head(cs)) THEN Len(Head(cs).events) ELSE 0) + QualifyingMembers(Tail(cs))
\* The priority entry is member m of group c, with c's final score and kind.
EntryOf(entry, c, m) ==
    /\ entry.event = c.events[m]
    /\ entry.priority_score = FinalScore(c, result.ml_insights)
    /\ entry.correlation_type = c.type

\* C16: threshold qualification.  Every priority event is a member of a group
\* whose final score is >= the threshold, with that group's final score and
\* kind; and, as long as the list is not truncated, every member of every
\* such group is in the list, which holds nothing else.
C16_ThresholdQualification ==
    pc = "done" =>
        LET hp == result.high_priority_events
            cs == result.correlations
        IN /\ \A k \in 1..Len(hp) :
                 \E c \in 1..Len(cs) :
                    /\ Qualifies(cs[c])
                    /\ \E m \in 1..Len(cs[c].events) : EntryOf(hp[k], cs[c], m)
           /\ Len(hp) = Min(TopN, QualifyingMembers(cs))
           /\ QualifyingMembers(cs) <= TopN =>
                 \A c \in 1..Len(cs) :
                    Qualifies(cs[c]) =>
                       \A m \in 1..Len(cs[c].events) :
                          \E k \in 1..Len(hp) : EntryOf(hp[k], cs[c], m)

\* C16 witness: a run in which a group's final score equals the threshold, so
\* that its members are priority events, while another group stays below it.
C16_Witness ==
    /\ pc = "done"
    /\ \E c, d \in 1..Len(result.correlations) :
          /\ FinalScore(result.correlations[c], result.ml_insights) = Scaled(anomaly_threshold)
          /\ ~Qualifies(result.correlations[d])
          /\ \E k \in 1..Len(result.high_priority_events) :
                EntryOf(result.high_priority_events[k], result.correlations[c], 1)

\* The boost the anomaly-score map holds for a group under its (kind, key)
\* identifier, the key of a temporal group being its window.
BoostByPair(c, ml_insights) ==
    IF ml_insights.present
    THEN ScoreOf(ml_insights.anomaly_scores,
                 PairId(c.type, IF c.type = "temporal" THEN c.window ELSE c.entity))
    ELSE 0

\* C17 (as claimed): the final score of every group is
\* min(1, score + 0.3 * boost), boost being the entry of the anomaly-score map
\* for the group's (kind, key) identifier, 0 without such an entry.
C17_BoostByKindAndKey ==
    pc = "done" =>
        \A c \in 1..Len(result.correlations) :
            LET g == result.correlations[c]
            IN FinalScore(g, result.ml_insights)
                 = Min(ScoreDen, g.correlation_score
                                 + (BoostByPair(g, result.ml_insights) * 3 * ScoreDen) \div 100)

\* C18 (as claimed): the priority list never holds two entries with the same
\* hash, and the entry kept for an event has the highest score among the
\* qualifying groups the event is a member of.
C18_PriorityDeduplicated ==
    pc = "done" =>
        LET hp == result.high_priority_events
        IN /\ \A i, j \in 1..Len(hp) : i # j => hp[i].event.hash # hp[j].event.hash
           /\ \A k \in 1..Len(hp) :
                 \A c \in 1..Len(result.correlations) :
                    ( /\ Qualifies(result.correlations[c])
                      /\ \E m \in 1..Len(result.correlations[c].events) :
                            result.correlations[c].events[m].hash = hp[k].event.hash )
                    => FinalScore(result.correlations[c], result.ml_insights)
                         <= hp[k].priority_score

\* The members of the qualifying groups, as (group, member) positions in the
\* correlations list: their encounter order is the order of these pairs.
QualifyingPairs ==
    UNION { { << c, m >> : m \in 1..Len(result.correlations[c].events) } :
              c \in { d \in 1..Len(result.correlations) : Qualifies(result.correlations[d]) } }
\* q is ranked before p: a higher final score, or the same and met earlier.
RankedBefore(q, p, score) ==
    \/ score[q[1]] > score[p[1]]
    \/ /\ score[q[1]] = score[p[1]]
       /\ \/ q[1] < p[1]
          \/ q[1] = p[1] /\ q[2] < p[2]

\* C19: ranking.  The priority list is the qualifying members by
\* non-increasing final score, members of equal score in encounter order
\* (group order, then member order), cut to its first 100 entries.
C19_Ranking ==
    pc = "done" =>
        LET hp == result.high_priority_events
            cs == result.correlations
            score == [ c \in 1..Len(cs) |-> FinalScore(cs[c], result.ml_insights) ]
            Q == QualifyingPairs
            place(p) == Cardinality({ q \in Q : RankedBefore(q, p, score) }) + 1
        IN /\ Len(hp) = Min(TopN, Cardinality(Q))
           /\ Len(hp) <= TopN
           /\ \A k \in 1..(Len(hp) - 1) : hp[k].priority_score >= hp[k + 1].priority_score
           /\ \A p \in Q : place(p) <= TopN => EntryOf(hp[place(p)], cs[p[1]], p[2])

\* C19 witness: more than 100 members qualified, a group met later outranks a
\* group met earlier, and the list holds 100 entries of differing scores.
C19_Witness ==
    /\ pc = "done"
    /\ QualifyingMembers(result.correlations) > TopN
    /\ Len(result.high_priority_events) = TopN
    /\ result.high_priority_events[1].priority_score
         > result.high_priority_events[TopN].priority_score
    /\ \E c, d \in 1..Len(result.correlations) :
          /\ c < d
          /\ Qualifies(result.correlations[c])
          /\ FinalScore(result.correlations[c], result.ml_insights)
               < FinalScore(result.correlations[d], result.ml_insights)

\* Thresholds, in tenths, over which the filter is compared.
ThresholdScale == 0..10
\* The priority events of this run's groups and anomaly map under threshold t.
PrioritySet(t) ==
    Range(extract_high_priority_events(result.correlations, result.ml_insights, t))

\* C20: threshold monotonicity.  For the groups and anomaly map of a run and
\* thresholds t1 < t2, every priority event returned under t2 is returned
\* under t1, truncation included.
C20_ThresholdMonotone ==
    pc = "done" =>
        LET set == [ t \in ThresholdScale |-> PrioritySet(t) ]
        IN \A t1, t2 \in ThresholdScale : t1 < t2 => set[t2] \subseteq set[t1]

\* C20 witness: under the run's threshold the list is truncated to 100
\* entries, and under a higher threshold it is shorter and not empty.
C20_Witness ==
    /\ pc = "done"
    /\ QualifyingMembers(result.correlations) > TopN
    /\ \E t \in ThresholdScale :
          /\ t > anomaly_threshold
          /\ PrioritySet(t) # {}
          /\ Cardinality(PrioritySet(t)) < Cardinality(PrioritySet(anomaly_threshold))

\* The sum of the scores of the first k groups, in units of 1/ScoreDen.
RECURSIVE ScoreTotal(_, _)
ScoreTotal(correlations, k) ==
    IF k = 0 THEN 0
    ELSE ScoreTotal(correlations, k - 1) + correlations[k].correlation_score

\* C21: confidence score.  With n > 0 groups the run's score equals
\* min(1, 0.4 * min(1, n/50) + 0.4 * (mean group score) + 0.2 * c), c being the
\* engine's confidence or 0 when it reports none, and lies in [0, 1]; with no
\* group it is exactly 0.  Both sides are compared over the denominator
\* 500 * ScoreDen * n, of which the score's own denominator is a divisor.
C21_ConfidenceScore ==
    pc = "done" =>
        LET n == Len(result.correlations)
            score == result.confidence_score
            c == IF result.ml_insights.present THEN result.ml_insights.confidence ELSE 0
            one == 500 * ScoreDen * n
            sum == 4 * ScoreDen * n * Min(n, 50)
                   + 200 * ScoreTotal(result.correlations, n)
                   + 10 * ScoreDen * n * c
        IN /\ score.den > 0
           /\ 0 <= score.num
           /\ score.num <= score.den
           /\ IF n = 0 THEN score.num = 0
              ELSE /\ one % score.den = 0
                   /\ score.num * (one \div score.den) = Min(one, sum)

\* C21 witness: a run whose only group scores 0.5 and whose engine reports no
\* confidence returns 0.208.
C21_Witness ==
    /\ pc = "done"
    /\ Len(result.correlations) = 1
    /\ 2 * result.correlations[1].correlation_score = ScoreDen
    /\ ~result.ml_insights.present
    /\ 1000 * result.confidence_score.num = 208 * result.confidence_score.den

\* The run's pattern list names the pattern.
Fired(pattern) ==
    \E i \in 1..Len(result.attack_patterns) : result.attack_patterns[i] = pattern
\* The positions, in the run's list of groups, of the groups of a kind.
GroupsOfKind(type) ==
    { i \in 1..Len(result.correlations) : result.correlations[i].type = type }
\* The descriptions of the model that contain "failed" in some casing, and
\* the keys that contain "inject" in some casing.
FailedTexts == { "Failed logon attempt" }
InjectTexts == { "Injector.EXE", "injector.exe", "inject-srv" }
\* The username groups with a member whose description mentions a failure.
FailedUserGroups ==
    { i \in GroupsOfKind("user_activity") :
        \E k \in 1..Len(result.correlations[i].events) :
            result.correlations[i].events[k].description \in FailedTexts }

\* C22: brute force.  A finished run reports brute_force_attempt exactly when
\* more than 3 of its username groups have a member whose description
\* contains "failed" in any casing; groups of other kinds do not count.
C22_BruteForce ==
    pc = "done" => (Fired("brute_force_attempt") <=> Cardinality(FailedUserGroups) > 3)

\* C22 witness: exactly four username groups with failed logons, a fifth
\* username group without, and the pattern is reported.
C22_Witness ==
    /\ pc = "done"
    /\ Cardinality(FailedUserGroups) = 4
    /\ Cardinality(GroupsOfKind("user_activity")) = 5
    /\ Fired("brute_force_attempt")

\* C23: lateral movement.  A finished run reports potential_lateral_movement
\* exactly when it has more than 5 hostname groups.
C23_LateralMovement ==
    pc = "done" =>
        (Fired("potential_lateral_movement")
            <=> Cardinality(GroupsOfKind("host_activity")) > 5)

\* C23 witness: exactly six hostname groups, and the pattern is reported.
C23_Witness ==
    /\ pc = "done"
    /\ Cardinality(GroupsOfKind("host_activity")) = 6
    /\ Fired("potential_lateral_movement")

\* C24: process injection.  A finished run reports process_injection exactly
\* when the key of one of its process groups contains "inject" in any casing;
\* keys of groups of other kinds do not trigger it, and no identifier is
\* listed twice.
C24_ProcessInjection ==
    pc = "done" =>
        /\ Fired("process_injection")
             <=> \E i \in GroupsOfKind("process_activity") :
                    result.correlations[i].entity \in InjectTexts
        /\ \A i, j \in 1..Len(result.attack_patterns) :
              i # j => result.attack_patterns[i] # result.attack_patterns[j]

\* C24 witness: a process group keyed "Injector.EXE" makes the run report the
\* pattern, next to another pattern.
C24_Witness ==
    /\ pc = "done"
    /\ \E i \in GroupsOfKind("process_activity") :
          result.correlations[i].entity = "Injector.EXE"
    /\ Fired("process_injection")
    /\ Len(result.attack_patterns) = 2

\* What an event says, apart from the adapter's stamp and the category tag.
Content(ev) ==
    [ ev EXCEPT !.source_type = Absent, !.source = Absent,
                !.raw_data = [ @ EXCEPT !.source = None ], !.hash = [ @ EXCEPT ![2] = None ] ]
\* The tasks gathered for a category of this run.
TasksOf(source_type) ==
    Flatten([ f \in 1..Len(finished) |->
                IF finished[f].source_type = source_type THEN finished[f].tasks ELSE <<>> ])
\* The events of the i-th path of category c as the merge is claimed to place
\* them: the records of the file in file order, held by the list its task
\* returned; nothing when the task failed.
PlacedEvents(c, i) ==
    LET source_type == evidence_paths[c].source_type
        file_path == evidence_paths[c].file_paths[i]
        t == TasksOf(source_type)[i]
        records == parse_async(source_type, file_path, "ok").events
    IN IF t.failed THEN <<>>
       ELSE [ k \in 1..Len(records) |->
                [ oid |-> << t.id, k >>, content |-> Content(normalize_event(records[k])) ] ]
\* Category order, then listed path order.
MergeOrder ==
    Flatten([ c \in 1..Len(evidence_paths) |->
                IF evidence_paths[c].source_type \in parsers
                THEN Flatten([ i \in 1..Len(evidence_paths[c].file_paths) |-> PlacedEvents(c, i) ])
                ELSE <<>> ])
\* The unified event sequence: parsed_data's entries in insertion order.
UnifiedSequence ==
    LET all == Flatten([ c \in 1..Len(parsed_data) |-> parsed_data[c].events ])
    IN [ j \in 1..Len(all) |-> [ oid |-> all[j].oid, content |-> Content(all[j].ev) ] ]

\* C25: deterministic merge order.  Once parsing has ended, under every
\* interleaving and completion order of the parse tasks, the unified event
\* sequence is the concatenation of the files' events in the caller's
\* category order and, within a category, in the listed path order: a
\* function of the evidence, the files and which adapter calls failed.
C25_MergeOrder ==
    ParseEnded => UnifiedSequence = MergeOrder

\* C25 witness: one path was listed twice in a category, both adapter calls
\* were made, the second task's call returned first (the cache holds the
\* first task's list, written last), and the first task's events precede the
\* second's in the unified sequence.
C25_Witness ==
    /\ pc = "correlate"
    /\ Len(finished) = 1
    /\ Len(finished[1].tasks) = 2
    /\ \A i \in 1..2 :
          /\ finished[1].tasks[i].invoked
          /\ ~finished[1].tasks[i].failed
          /\ Len(finished[1].tasks[i].events) = 2
    /\ finished[1].tasks[1].file_path = finished[1].tasks[2].file_path
    /\ parsed_cache[CacheKey(finished[1].source_type, finished[1].tasks[1].file_path)].id
         = finished[1].tasks[1].id
    /\ Len(UnifiedSequence) = 4
    /\ UnifiedSequence[1].oid = << finished[1].tasks[1].id, 1 >>
    /\ UnifiedSequence[3].oid = << finished[1].tasks[2].id, 1 >>

\* The seven fields of a normalized event that the content hash is claimed
\* to be computed from.
HashedFields(ev) ==
    << ev.timestamp, ev.source, ev.description, ev.hostname, ev.username,
       ev.process_name, ev.ip_address >>

\* C26 (as claimed): the content hash is a function of the seven normalized
\* fields.  Any two events of a run that agree on the normalized timestamp,
\* source, description, hostname, username, process name and IP address
\* carry the same hash.
C26_HashOfNormalizedFields ==
    \A n, m \in 1..Len(RunTasks) :
        \A k \in 1..Len(RunTasks[n].task.events), l \in 1..Len(RunTasks[m].task.events) :
            LET e1 == RunTasks[n].task.events[k]
                e2 == RunTasks[m].task.events[l]
            IN HashedFields(e1) = HashedFields(e2) => e1.hash = e2.hash

\* C27 (as claimed): the cache is keyed by path and adapter.  Events that a
\* parse task takes from the cache were stored by the adapter of the task's
\* own category: they carry that adapter's name as their source.
C27_CacheKeyedByAdapter ==
    \A n \in 1..Len(RunTasks) :
        RunTasks[n].task.hit =>
            \A k \in 1..Len(RunTasks[n].task.events) :
                RunTasks[n].task.events[k].source = parser_name(RunTasks[n].source_type)

\* C28 (as claimed): events are immutable once cached.  No step of any run
\* removes a cache entry or changes a field of an event held in the cache.
C28_CachedEventsImmutable ==
    [][ \A key \in DOMAIN parsed_cache :
            /\ key \in DOMAIN parsed_cache'
            /\ parsed_cache'[key].events = parsed_cache[key].events ]_vars

\* The unified event sequence of the run, and the positions in it of the
\* events whose raw timestamp could not be parsed.
Unified == Flatten([ c \in 1..Len(parsed_data) |-> parsed_data[c].events ])
Unparsed == { j \in 1..Len(Unified) : Unified[j].ev.raw_data.timestamp.fmt = "bad" }
\* The positions of the events that carry value v in a column.
Sharing(column, v) ==
    { j \in 1..Len(Unified) :
        CASE column = "username" -> Unified[j].ev.username = v
          [] column = "hostname" -> Unified[j].ev.hostname = v
          [] OTHER -> Unified[j].ev.process_name = v }
\* An unparsed event that shares its value of a column with another event is
\* counted in the group of that value.
JoinsGroup(j, column, type) ==
    LET v == CASE column = "username" -> Unified[j].ev.username
               [] column = "hostname" -> Unified[j].ev.hostname
               [] OTHER -> Unified[j].ev.process_name
    IN (v # Absent /\ Cardinality(Sharing(column, v)) > 1) =>
          \E i \in 1..Len(result.correlations) :
              /\ result.correlations[i].type = type
              /\ result.correlations[i].entity = v
              /\ result.correlations[i].count = Cardinality(Sharing(column, v))
\* What is claimed of a finished run for its unparsed events, the run having
\* returned: no timestamp field, counted in total_events, grouped by user,
\* host and process like any other event.
UnparsedKept ==
    /\ result.stats.total_events = Len(Unified)
    /\ \A j \in Unparsed :
          /\ Unified[j].ev.timestamp = NoTime
          /\ JoinsGroup(j, "username", "user_activity")
          /\ JoinsGroup(j, "hostname", "host_activity")
          /\ JoinsGroup(j, "process_name", "process_activity")

\* C29 (as claimed): a record whose timestamp cannot be parsed is still
\* included and does not abort the run.  A run that ingested such a record
\* and has ended has returned a result, in which the record's event has no
\* timestamp, is counted in total_events and is a member of the username,
\* hostname and process groups of its values.
C29_UnparsedTimestampKept ==
    (pc \in {"done", "raised"} /\ Unparsed # {}) => (pc = "done" /\ UnparsedKept)

\* The cache key of the i-th task being gathered.
KeyOfTask(i) == CacheKey(evidence_paths[source_idx].source_type, tasks[i].file_path)

\* C30: a failed parse is never cached.  The step in which the adapter call
\* of a parse task raises leaves the cache as it was, entry for entry; and
\* a parse task that starts while the cache has no entry for its path
\* invokes the adapter.
C30_FailedParseNotCached ==
    [][ \A i \in 1..Len(tasks) :
          /\ (tasks[i].st = "awaiting" /\ tasks'[i].failed) => parsed_cache' = parsed_cache
          /\ (tasks[i].st = "pending" /\ tasks'[i].st # "pending"
                /\ KeyOfTask(i) \notin DOMAIN parsed_cache) => tasks'[i].invoked ]_vars

\* C30 witness: the adapter call for a path raised in one category of the
\* run, the cache has no entry for the path, and the task for the same path
\* in the next category has invoked the adapter again.
C30_Witness ==
    /\ pc = "parsing"
    /\ Len(finished) = 1
    /\ Len(tasks) = 1
    /\ finished[1].tasks[1].failed
    /\ finished[1].tasks[1].file_path = tasks[1].file_path
    /\ KeyOfTask(1) \notin DOMAIN parsed_cache
    /\ tasks[1].invoked

====
